---------------------------- MODULE Spec2Model ----------------------------
(***************************************************************************)
(* A model of docker-starter (src/docker-starter.go).                      *)
(*                                                                         *)
(* The program turns its environment into a multi-valued variable table    *)
(* (readExtendedVariables), renders the -cmd and -dir arguments and the    *)
(* template files against that table (processString, fillArgs,             *)
(* processTemplate), and then starts the target command and relays         *)
(* signals to it (executeCommand).                                         *)
(*                                                                         *)
(* A Go string is modelled as a sequence of one-character strings, so that *)
(* splitting, the two regular expressions, sorting and the search for the  *)
(* text "<no value>" are computed the way the code computes them.          *)
(***************************************************************************)
EXTENDS Integers, Sequences, FiniteSets, TLC

VARIABLES
    \* readExtendedVariables
    env,        \* env.getEnvVariables(): the raw "NAME=VALUE" entries
    epc,        \* "start", "done" (the table was returned) or "panic"
    vars,       \* the returned map[string][]string
    elog,       \* the lines readExtendedVariables wrote to the logger
    \* processString / fillArgs
    tvars,      \* the table the templates are rendered against
    cmdSrc,     \* the -cmd argument
    dirSrc,     \* the -dir argument
    tpc,        \* "start", "processed" (processString ran) or "filled" (fillArgs ran)
    tout,       \* what the call returned
    tlog,       \* the lines fillArgs wrote to the logger
    \* executeCommand
    spc,        \* where executeCommand is: "start", "started", "notified",
                \* "waiting", "returned", "killed" (the supervisor died) or
                \* "exited" (main has ended the process)
    listening,  \* the goroutine that reads sigs has been started
    child,      \* "none", "running" or "exited"
    exitStatus, \* the child's exit status once it has exited
    sigs,       \* the channel sigs
    inHand,     \* the signal the goroutine has received and not yet sent
    delivered,  \* the signals delivered to the supervisor since the start
    forwarded,  \* the signals sent to the running child
    waitErr,    \* the error command.Wait() returned
    ret,        \* the error executeCommand returned
    slog,       \* the lines executeCommand wrote to the logger
    osEnviron,  \* os.Environ(): the environment of the supervising process
    commandVars, \* command.Env: the "NAME=VALUE" entries built from the table
    childEnv,   \* the environment the child was started with
    earlier,    \* the channel and goroutine of every earlier call of executeCommand
    sentAfterReturn, \* the signals sent to a child after its call had returned
    refused,    \* the number of calls of command.Process.Signal that returned its error
    \* findTemplateFiles / processTemplate
    files,      \* the files of the template directory: name -> text, readonly
    files0,     \* the directory as it was when processTemplate was called
    filename,   \* the filename processTemplate is called with
    force,      \* the -force flag
    fpc,        \* "start" or "done" (processTemplate returned)
    ferr,       \* the error processTemplate returned
    flog,       \* the lines findTemplateFiles and processTemplate wrote to the logger
    \* main
    mpc,        \* where main is: "env", "args", "find", "loop", "exec",
                \* "cmd" (executeCommand runs), "exit" or "exited"
    found,      \* the template files main has still to process
    execCalls,  \* the number of calls of executeCommand
    stageFailed, \* a call of fillArgs, findTemplateFiles or processTemplate returned an error
    exitCode    \* the exit status of the run

evars == <<env, epc, vars, elog>>
tmplvars == <<tvars, cmdSrc, dirSrc, tpc, tout, tlog>>
svars == <<spc, listening, child, exitStatus, sigs, inHand, delivered, forwarded, waitErr, ret, slog>>
fvars == <<files, files0, filename, force, fpc, ferr, flog>>
mvars == <<mpc, found, execCalls, stageFailed, exitCode>>
cvars == <<osEnviron, commandVars, childEnv, earlier, sentAfterReturn, refused>>
allvars == <<evars, tmplvars, svars, fvars, mvars, cvars>>

---------------------------------------------------------------------------
(* Strings                                                                 *)

\* The characters of the model in ascending byte order (sort.Strings and
\* the comparison of Go strings order strings by their bytes).
ByteOrder ==
    <<" ", "\"", "#", ",", ".", "/",
      "0", "1", "2", "3", "4", "5", "6", "7", "8", "9",
      ":", "<", "=", ">",
      "A", "B", "C", "D", "E", "F", "G", "H", "I", "J", "K", "L", "M",
      "N", "O", "P", "Q", "R", "S", "T", "U", "V", "W", "X", "Y", "Z",
      "[", "]", "_",
      "a", "b", "c", "d", "e", "f", "g", "h", "i", "j", "k", "l", "m",
      "n", "o", "p", "q", "r", "s", "t", "u", "v", "w", "x", "y", "z",
      "{", "}">>

ByteCode ==
    [c \in {ByteOrder[i] : i \in 1..Len(ByteOrder)} |->
        CHOOSE i \in 1..Len(ByteOrder) : ByteOrder[i] = c]

Byte(c) == ByteCode[c]

IsDigit(c) == c \in {"0", "1", "2", "3", "4", "5", "6", "7", "8", "9"}

\* s[from..to], empty when from > to
Sub(s, from, to) == [i \in 1..(to - from + 1) |-> s[from + i - 1]]

\* strings.HasPrefix applied at position i: pat occurs in s starting at i
OccursAt(s, pat, i) ==
    /\ i >= 1
    /\ i + Len(pat) - 1 <= Len(s)
    /\ \A j \in 1..Len(pat) : s[i + j - 1] = pat[j]

\* the positions at which pat occurs in s
Occurrences(s, pat) == {i \in 1..(Len(s) - Len(pat) + 1) : OccursAt(s, pat, i)}

Min(S) == CHOOSE x \in S : \A y \in S : x <= y
Max(S) == CHOOSE x \in S : \A y \in S : x >= y

\* strings.Contains
Contains(s, pat) == Occurrences(s, pat) # {}

\* strings.HasSuffix
HasSuffix(s, pat) == OccursAt(s, pat, Len(s) - Len(pat) + 1)

\* a < b for Go strings: byte-wise lexicographic order
StrLess(a, b) ==
    \E i \in 1..(Len(a) + 1) :
        /\ i <= Len(b)
        /\ \A j \in 1..(i - 1) : a[j] = b[j]
        /\ \/ i = Len(a) + 1
           \/ Byte(a[i]) < Byte(b[i])

\* strings.Split(s, sep) for a one-character separator
RECURSIVE Split(_, _)
Split(s, sep) ==
    LET at == {i \in 1..Len(s) : s[i] = sep}
    IN  IF at = {} THEN <<s>>
        ELSE LET i == Min(at)
             IN  <<Sub(s, 1, i - 1)>> \o Split(Sub(s, i + 1, Len(s)), sep)

\* strings.Join
RECURSIVE Join(_, _)
Join(values, sep) ==
    IF Len(values) = 0 THEN <<>>
    ELSE IF Len(values) = 1 THEN values[1]
    ELSE values[1] \o sep \o Join(Tail(values), sep)

\* sort.Strings over the keys of a map: the keys in ascending order
RECURSIVE SortStrings(_)
SortStrings(S) ==
    IF S = {} THEN <<>>
    ELSE LET m == CHOOSE x \in S : \A y \in S \ {x} : StrLess(x, y)
         IN  <<m>> \o SortStrings(S \ {m})

\* the length of the longest run of digits that ends s
RECURSIVE DigitSuffixLen(_)
DigitSuffixLen(s) ==
    IF Len(s) > 0 /\ IsDigit(s[Len(s)])
    THEN 1 + DigitSuffixLen(Sub(s, 1, Len(s) - 1))
    ELSE 0

\* the length of the longest run of digits that starts s
RECURSIVE DigitPrefixLen(_)
DigitPrefixLen(s) ==
    IF Len(s) > 0 /\ IsDigit(s[1])
    THEN 1 + DigitPrefixLen(Tail(s))
    ELSE 0

---------------------------------------------------------------------------
(* The variable table: a function from names to sequences of values        *)

EmptyTable == [k \in {} |-> <<>>]

\* m[key] of a Go map of slices: the nil slice for a missing key
Lookup(m, key) == IF key \in DOMAIN m THEN m[key] ELSE <<>>

\* m[key] = append(m[key], value)
Append1(m, key, value) ==
    [k \in DOMAIN m \cup {key} |->
        IF k = key THEN Append(Lookup(m, key), value) ELSE m[k]]

InSeq(seq, x) == \E i \in 1..Len(seq) : seq[i] = x

---------------------------------------------------------------------------
(* readExtendedVariables and its helpers                                   *)

\* addNew that puts the new value in front of the old ones
addNewInFront(m, key, value) ==
    IF InSeq(Lookup(m, key), value)
    THEN [m |-> m, isSet |-> FALSE]
    ELSE [m |-> [k \in DOMAIN m \cup {key} |->
                    IF k = key THEN <<value>> \o Lookup(m, key) ELSE m[k]],
          isSet |-> TRUE]

\* addNew without the search for the value: it appends and returns true
addNewAlways(m, key, value) == [m |-> Append1(m, key, value), isSet |-> TRUE]

\* addNew: append value to m[key] unless it is already there
addNew(m, key, value) ==
    IF InSeq(Lookup(m, key), value)
    THEN [m |-> m, isSet |-> FALSE]
    ELSE [m |-> Append1(m, key, value), isSet |-> TRUE]

NoLinkkey == [app |-> <<>>, idx |-> <<>>, port |-> <<>>]

\* parseLinkkey: ^([^_]+)_(\d*).*PORT_(\d+)_TCP$
\* The first group ends at the first "_"; the key must end in "_TCP", the
\* digits before it are the port and "PORT_" must stand right before them,
\* somewhere after the first "_".
parseLinkkey(key) ==
    LET us   == {i \in 1..Len(key) : key[i] = "_"}
        i    == Min(us)
        rest == Sub(key, i + 1, Len(key))
        body == Sub(rest, 1, Len(rest) - 4)
        n    == DigitSuffixLen(body)
        head == Sub(body, 1, Len(body) - n)
    IN  IF /\ us # {}
           /\ i >= 2
           /\ HasSuffix(rest, <<"_", "T", "C", "P">>)
           /\ n >= 1
           /\ HasSuffix(head, <<"P", "O", "R", "T", "_">>)
        THEN [app  |-> Sub(key, 1, i - 1),
              idx  |-> Sub(rest, 1, DigitPrefixLen(rest)),
              port |-> Sub(body, Len(body) - n + 1, Len(body))]
        ELSE NoLinkkey

NoLinkvalue == [schema |-> <<>>, host |-> <<>>, port |-> <<>>, err |-> TRUE]

\* parseLinkvalue with the scheme group left out of the expression: ^(.*):(\d+)$
parseLinkvalueNoSchemeGroup(value) ==
    LET n     == DigitSuffixLen(value)
        colon == Len(value) - n
    IN  IF n >= 1 /\ colon >= 1 /\ value[colon] = ":"
        THEN [schema |-> <<>>,
              host   |-> Sub(value, 1, colon - 1),
              port   |-> Sub(value, colon + 1, Len(value)),
              err    |-> FALSE]
        ELSE NoLinkvalue

\* parseLinkvalue: ^(.*)://(.*):(\d+)$
\* The port is the run of digits that ends the value, with ":" before it;
\* the greedy first group ends at the last "://" before that ":".
parseLinkvalue(value) ==
    LET n     == DigitSuffixLen(value)
        colon == Len(value) - n
        pre   == Sub(value, 1, colon - 1)
        at    == Occurrences(pre, <<":", "/", "/">>)
        i     == Max(at)
    IN  IF n >= 1 /\ colon >= 1 /\ value[colon] = ":" /\ at # {}
        THEN [schema |-> Sub(pre, 1, i - 1),
              host   |-> Sub(pre, i + 3, Len(pre)),
              port   |-> Sub(value, colon + 1, Len(value)),
              err    |-> FALSE]
        ELSE NoLinkvalue

\* the log line of logger.Println(err) for an invalid link value
InvalidLine(value) == [kind |-> "found invalid link value in", key |-> <<>>, text |-> <<value>>]

\* the log line of logger.Printf("use: %s = %+v", key, result[key])
UseLine(key, values) == [kind |-> "use:", key |-> key, text |-> values]

\* the first loop with a value appended only when it is not empty: the
\* name of an entry with an empty value becomes a key without values
RECURSIVE readEnvEntriesSkippingEmpty(_, _)
readEnvEntriesSkippingEmpty(entries, result) ==
    IF entries = <<>> THEN result
    ELSE LET pair == Split(Head(entries), "=")
             next == IF pair[2] = <<>>
                     THEN [k \in DOMAIN result \cup {pair[1]} |-> Lookup(result, k)]
                     ELSE Append1(result, pair[1], pair[2])
         IN  readEnvEntriesSkippingEmpty(Tail(entries), next)

\* the first loop: split every entry at "=" and append pair[1] to result[pair[0]]
RECURSIVE readEnvEntries(_, _)
readEnvEntries(entries, result) ==
    IF entries = <<>> THEN result
    ELSE LET pair == Split(Head(entries), "=")
         IN  readEnvEntries(Tail(entries), Append1(result, pair[1], pair[2]))

\* pair[1] of an entry without "=": index out of range, the program panics
Panics(entries) == \E i \in 1..Len(entries) : Len(Split(entries[i], "=")) < 2

\* the body of the second loop for one key
extendKey(st, key) ==
    LET lk == parseLinkkey(key)
    IN  IF lk.app = <<>> THEN st
        ELSE LET lv == parseLinkvalue(st.result[key][1])
             IN  IF lv.err
                 THEN [st EXCEPT !.log = Append(@, InvalidLine(st.result[key][1]))]
                 ELSE LET urlValue   == <<"h", "t", "t", "p", ":", "/", "/">> \o lv.host \o <<":">> \o lv.port
                          appKey     == lk.app \o <<"_", "U", "R", "L">>
                          r1         == addNew(st.result, appKey, urlValue)
                          appPortKey == lk.app \o <<"_">> \o lk.port \o <<"_", "U", "R", "L">>
                          r2         == addNew(r1.m, appPortKey, urlValue)
                      IN  [result  |-> r2.m,
                           summary |-> st.summary
                                         \cup (IF r1.isSet THEN {appKey} ELSE {})
                                         \cup (IF r2.isSet THEN {appPortKey} ELSE {}),
                           log     |-> st.log]

\* the second loop with break in place of continue after an invalid link value
RECURSIVE extendKeysAborting(_, _)
extendKeysAborting(keys, st) ==
    IF keys = <<>> THEN st
    ELSE LET next == extendKey(st, Head(keys))
         IN  IF Len(next.log) > Len(st.log) THEN next
             ELSE extendKeysAborting(Tail(keys), next)

\* the second loop over the keys in the given order
RECURSIVE extendKeys(_, _)
extendKeys(keys, st) ==
    IF keys = <<>> THEN st
    ELSE extendKeys(Tail(keys), extendKey(st, Head(keys)))

\* the names of the entries in the order of their first occurrence
RECURSIVE ArrivalOrder(_, _)
ArrivalOrder(entries, seen) ==
    IF entries = <<>> THEN <<>>
    ELSE LET name == Split(Head(entries), "=")[1]
         IN  IF name \in seen THEN ArrivalOrder(Tail(entries), seen)
             ELSE <<name>> \o ArrivalOrder(Tail(entries), seen \cup {name})

\* readExtendedVariables without sort.Strings(keys): the keys are processed
\* in the order the entries arrived
readExtendedVariablesUnsorted(entries) ==
    LET result == readEnvEntries(entries, EmptyTable)
    IN  extendKeys(ArrivalOrder(entries, {}),
                   [result |-> result, summary |-> {}, log |-> <<>>])

\* readExtendedVariables up to the summary lines: the table, the keys of
\* the summary and the lines logged so far
readExtendedVariables(entries) ==
    LET result == readEnvEntries(entries, EmptyTable)
        keys   == SortStrings(DOMAIN result)
    IN  extendKeys(keys, [result |-> result, summary |-> {}, log |-> <<>>])

\* the orders in which "for key := range summary" may visit the keys
Orderings(S) ==
    LET n == Cardinality(S)
    IN  {o \in [1..n -> S] : \A i, j \in 1..n : i # j => o[i] # o[j]}

---------------------------------------------------------------------------
(* The environments readExtendedVariables is run on                        *)

\* the longest environment
MaxEnvLen == 3

\* variables that already carry the name of a derived key
eAppUrl      == <<"A", "_", "U", "R", "L", "=", "F">>
\* a raw value that equals the URL derived from eLink
eAppUrlSame  == <<"A", "_", "U", "R", "L", "=", "h", "t", "t", "p", ":", "/", "/", "h", ":", "2">>
\* link variables of application A, port 1, with distinct hosts
eLink        == <<"A", "_", "P", "O", "R", "T", "_", "1", "_", "T", "C", "P", "=", "t", ":", "/", "/", "h", ":", "2">>
eLink2       == <<"A", "_", "2", "_", "P", "O", "R", "T", "_", "1", "_", "T", "C", "P", "=", "u", ":", "/", "/", "g", ":", "1">>
eLink10      == <<"A", "_", "1", "0", "_", "P", "O", "R", "T", "_", "1", "_", "T", "C", "P", "=", "t", ":", "/", "/", "f", ":", "1">>
\* a link variable of A with another port that resolves to the URL of eLink2
eLinkPort3   == <<"A", "_", "2", "_", "P", "O", "R", "T", "_", "3", "_", "T", "C", "P", "=", "t", ":", "/", "/", "g", ":", "1">>
\* a link key whose value is no scheme://host:port, sorted before every other key
eInvalidFirst == <<"A", "_", "0", "_", "P", "O", "R", "T", "_", "1", "_", "T", "C", "P", "=", "t">>
\* no link variables, one name given twice
ePlain       == <<"F", "=", "B">>
ePlainAgain  == <<"F", "=", "C">>
\* an empty value
eEmptyValue  == <<"G", "=">>
\* a value that holds "=", and an entry without "="
eTwoEquals   == <<"X", "=", "a", "=", "b">>
eNoEquals    == <<"N">>

EnvPool ==
    {eAppUrl, eAppUrlSame, eLink, eLink2, eLink10, eLinkPort3,
     eInvalidFirst, ePlain, eEmptyValue, eTwoEquals, eNoEquals}

Environments == UNION {[1..n -> EnvPool] : n \in 0..MaxEnvLen}

InitExtend ==
    /\ env \in Environments
    /\ epc = "start"
    /\ vars = EmptyTable
    /\ elog = <<>>

\* readExtendedVariables returns: the table, and in the log the lines of the
\* invalid link values followed by one "use:" line per key of the summary,
\* in the order the map iteration happens to take
ReadExtendedVariables ==
    /\ epc = "start"
    /\ ~Panics(env)
    /\ \E st \in {readExtendedVariables(env)} :
           \E order \in Orderings(st.summary) :
               /\ vars' = st.result
               /\ elog' = st.log \o
                            [i \in 1..Len(order) |-> UseLine(order[i], st.result[order[i]])]
    /\ epc' = "done"
    /\ UNCHANGED <<env, tmplvars, svars, fvars, mvars, cvars>>

\* an entry without "=" makes pair[1] panic: no table is returned
ReadExtendedVariablesPanics ==
    /\ epc = "start"
    /\ Panics(env)
    /\ epc' = "panic"
    /\ UNCHANGED <<env, vars, elog, tmplvars, svars, fvars, mvars, cvars>>

---------------------------------------------------------------------------
(* processString and fillArgs                                              *)

\* the text text/template prints for a map key that is missing
NoValue == <<"<", "n", "o", " ", "v", "a", "l", "u", "e", ">">>

NoError == [msg |-> "", arg |-> <<>>]

\* extractFirstElement that returns the last element
extractLastElement(values) ==
    IF Len(values) > 0 THEN values[Len(values)] ELSE <<>>

\* extractFirstElement (the template function E)
extractFirstElement(values) ==
    IF Len(values) > 0 THEN values[1] ELSE <<>>

\* extractJoinedElements that ignores the separator it is given
extractJoinedElementsDefaultSep(values, sepArg) ==
    Join(values, <<",">>)

\* extractJoinedElements (the template function J); sepArg holds the
\* variadic arguments
extractJoinedElements(values, sepArg) ==
    LET sep == IF Len(sepArg) > 0 THEN sepArg[1] ELSE <<",">>
    IN  Join(values, sep)

\* the words of an action, separated by spaces
Words(body) == SelectSeq(Split(body, " "), LAMBDA w : w # <<>>)

IsField(w) == Len(w) >= 2 /\ w[1] = "." /\ \A i \in 2..Len(w) : w[i] \notin {".", "\""}

IsQuoted(w) == Len(w) >= 2 /\ w[1] = "\"" /\ w[Len(w)] = "\""

BadNode == [type |-> "bad", key |-> <<>>, sep |-> <<>>, text |-> <<>>]

\* the node of one action {{...}}: a field {{.KEY}}, {{E .KEY}}, {{J .KEY}},
\* {{J .KEY "sep"}}, or a call of E or J without arguments ({{E }}), which
\* parses and fails when it is executed; anything else the model knows only
\* as an error of Parse
ActionNode(body) ==
    LET w == Words(body)
    IN  IF Len(w) = 1 /\ w[1] \in {<<"E">>, <<"J">>}
        THEN [type |-> "call0", key |-> <<>>, sep |-> <<>>, text |-> <<>>]
        ELSE IF Len(w) = 1 /\ IsField(w[1])
        THEN [type |-> "field", key |-> Tail(w[1]), sep |-> <<>>, text |-> <<>>]
        ELSE IF Len(w) = 2 /\ w[1] = <<"E">> /\ IsField(w[2])
        THEN [type |-> "E", key |-> Tail(w[2]), sep |-> <<>>, text |-> <<>>]
        ELSE IF Len(w) = 2 /\ w[1] = <<"J">> /\ IsField(w[2])
        THEN [type |-> "J", key |-> Tail(w[2]), sep |-> <<>>, text |-> <<>>]
        ELSE IF Len(w) = 3 /\ w[1] = <<"J">> /\ IsField(w[2]) /\ IsQuoted(w[3])
        THEN [type |-> "J", key |-> Tail(w[2]),
              sep |-> <<Sub(w[3], 2, Len(w[3]) - 1)>>, text |-> <<>>]
        ELSE BadNode

TextNode(text) == [type |-> "text", key |-> <<>>, sep |-> <<>>, text |-> text]

\* template.New("Template").Funcs(funcMap).Parse(src): the nodes of src, or
\* the error "unclosed action" when a "{{" has no "}}" after it
RECURSIVE Parse(_)
Parse(src) ==
    LET open == Occurrences(src, <<"{", "{">>)
    IN  IF open = {} THEN [err |-> "", nodes |-> IF src = <<>> THEN <<>> ELSE <<TextNode(src)>>]
        ELSE LET i     == Min(open)
                 after == Sub(src, i + 2, Len(src))
                 close == Occurrences(after, <<"}", "}">>)
             IN  IF close = {} THEN [err |-> "unclosed action", nodes |-> <<>>]
                 ELSE LET j    == Min(close)
                          node == ActionNode(Sub(after, 1, j - 1))
                          rest == Parse(Sub(after, j + 2, Len(after)))
                          text == IF i = 1 THEN <<>> ELSE <<TextNode(Sub(src, 1, i - 1))>>
                      IN  IF node.type = "bad" THEN [err |-> "bad action", nodes |-> <<>>]
                          ELSE IF rest.err # "" THEN rest
                          ELSE [err |-> "", nodes |-> text \o <<node>> \o rest.nodes]

\* what t.Execute writes for one node: a field of the map prints its slice
\* as [v1 v2 ...], and "<no value>" when the map has no such key; a missing
\* key handed to E or J arrives as the nil slice
ExecuteNode(node, table) ==
    IF node.type = "text" THEN node.text
    ELSE IF node.type = "field"
    THEN IF node.key \in DOMAIN table
         THEN <<"[">> \o Join(table[node.key], <<" ">>) \o <<"]">>
         ELSE NoValue
    ELSE IF node.type = "E" THEN extractFirstElement(Lookup(table, node.key))
    ELSE extractJoinedElements(Lookup(table, node.key), node.sep)

\* t.Execute(&buffer, vars)
RECURSIVE Execute(_, _)
Execute(nodes, table) ==
    IF nodes = <<>> THEN <<>>
    ELSE ExecuteNode(Head(nodes), table) \o Execute(Tail(nodes), table)

\* the nodes in front of the first call that fails when executed
RECURSIVE ExecutableNodes(_)
ExecutableNodes(nodes) ==
    IF nodes = <<>> \/ Head(nodes).type = "call0" THEN <<>>
    ELSE <<Head(nodes)>> \o ExecutableNodes(Tail(nodes))

\* t.Execute(w, vars) as a whole: what it has written, node by node, when
\* it returns, and its error, "wrong number of args" at a call of E or J
\* without arguments
Executed(nodes, table) ==
    LET done == ExecutableNodes(nodes)
    IN  [out |-> Execute(done, table),
         err |-> IF Len(done) < Len(nodes) THEN "wrong number of args" ELSE ""]

\* processString without the search for "<no value>"
processStringUnchecked(src, table) ==
    LET t == Parse(src)
        x == Executed(t.nodes, table)
    IN  IF t.err # "" THEN [str |-> <<>>, err |-> [msg |-> t.err, arg |-> <<>>]]
        ELSE IF x.err # "" THEN [str |-> <<>>, err |-> [msg |-> x.err, arg |-> <<>>]]
        ELSE [str |-> x.out, err |-> NoError]

\* processString
processString(src, table) ==
    LET t      == Parse(src)
        x      == Executed(t.nodes, table)
        buffer == x.out
    IN  IF t.err # "" THEN [str |-> <<>>, err |-> [msg |-> t.err, arg |-> <<>>]]
        ELSE IF x.err # "" THEN [str |-> <<>>, err |-> [msg |-> x.err, arg |-> <<>>]]
        ELSE IF Contains(buffer, NoValue)
        THEN [str |-> <<>>, err |-> [msg |-> "could not fill all markup in:", arg |-> src]]
        ELSE [str |-> buffer, err |-> NoError]

\* the log line of logger.Printf("error processing cmd: %s (%s)", cmdSrc, err)
ProcessingLine(which, src, err) ==
    [kind |-> "error processing", which |-> which, src |-> src, err |-> err]

\* fillArgs: cmd, dir and err are named results; the return after a failure
\* of the dir template returns the cmd that was already assigned
fillArgs(cSrc, dSrc, table) ==
    LET c == processString(cSrc, table)
        d == processString(dSrc, table)
    IN  IF c.err # NoError
        THEN [cmd |-> c.str, dir |-> <<>>, err |-> c.err,
              log |-> <<ProcessingLine("cmd", cSrc, c.err)>>]
        ELSE IF d.err # NoError
        THEN [cmd |-> c.str, dir |-> d.str, err |-> d.err,
              log |-> <<ProcessingLine("dir", dSrc, d.err)>>]
        ELSE [cmd |-> c.str, dir |-> d.str, err |-> NoError, log |-> <<>>]

---------------------------------------------------------------------------
(* The templates and tables processString and fillArgs are run on          *)

\* the most segments a -cmd template is built from
MaxSegments == 2

sText     == <<"c">>
sE        == <<"{", "{", "E", " ", ".", "F", "}", "}">>
sJ        == <<"{", "{", "J", " ", ".", "F", "}", "}">>
sJSep     == <<"{", "{", "J", " ", ".", "F", " ", "\"", "#", "\"", "}", "}">>
sField    == <<"{", "{", ".", "F", "}", "}">>
sUnclosed == <<"{", "{", ".", "F">>
sNoArg    == <<"{", "{", "E", " ", "}", "}">>

SegmentPool == {sText, sE, sJ, sJSep, sField, sUnclosed, sNoArg, NoValue}

RECURSIVE Concat(_)
Concat(segments) ==
    IF segments = <<>> THEN <<>> ELSE Head(segments) \o Concat(Tail(segments))

CmdTemplates == {Concat(s) : s \in UNION {[1..n -> SegmentPool] : n \in 0..MaxSegments}}

DirTemplates == {<<>>, <<"d">>, sField, sUnclosed}

kF == <<"F">>
kG == <<"G">>

TablePool ==
    {EmptyTable,
     [k \in {kF} |-> <<>>],
     [k \in {kF} |-> <<<<"a">>>>],
     [k \in {kF} |-> <<<<"a">>, <<"b">>>>],
     [k \in {kG} |-> <<<<"a">>>>],
     [k \in {kF} |-> <<NoValue>>]}

InitRender ==
    /\ tvars \in TablePool
    /\ cmdSrc \in CmdTemplates
    /\ dirSrc \in DirTemplates
    /\ tpc = "start"
    /\ tout = <<>>
    /\ tlog = <<>>

\* a call of processString on the -cmd template
ProcessString ==
    /\ tpc = "start"
    /\ tout' = processString(cmdSrc, tvars)
    /\ tpc' = "processed"
    /\ UNCHANGED <<tvars, cmdSrc, dirSrc, tlog, evars, svars, fvars, mvars, cvars>>

\* a call of fillArgs
FillArgs ==
    /\ tpc = "start"
    /\ \E r \in {fillArgs(cmdSrc, dirSrc, tvars)} :
           /\ tout' = [cmd |-> r.cmd, dir |-> r.dir, err |-> r.err]
           /\ tlog' = r.log
    /\ tpc' = "filled"
    /\ UNCHANGED <<tvars, cmdSrc, dirSrc, evars, svars, fvars, mvars, cvars>>

---------------------------------------------------------------------------
(* executeCommand                                                          *)

\* the capacity of the channel: sigs := make(chan os.Signal, 1)
SigChanCap == 1

\* the most signals delivered to the supervisor in one run
MaxSignals == 3

Signals == {"SIGHUP", "SIGINT", "SIGTERM"}

ExitStatuses == {0, 1}

\* the most calls of executeCommand in one process
MaxCalls == 2

\* the tables executeCommand is called with: tables readExtendedVariables returns
SuperviseTables ==
    {readExtendedVariables(e).result : e \in {<<>>, <<ePlain, ePlainAgain, eAppUrl>>}}

\* the environments of the supervising process
ProcessEnvironments == {<<>>, <<eAppUrl>>}

\* fmt.Sprintf("%s=%s", k, v[0])
commandVar(k, v) == k \o <<"=">> \o v[1]

\* the loop over the table: one entry for each key, in the order in which
\* the range statement visits the keys
flattened(table, order) == [i \in 1..Len(order) |-> commandVar(order[i], table[order[i]])]

\* the environment exec gives the new process: the entries of command.Env,
\* and the environment of the current process when command.Env is nil
envv(cmdEnv, processEnv) == IF cmdEnv = <<>> THEN processEnv ELSE cmdEnv

\* command.Process.Signal: a process whose Wait has returned is done, and
\* Signal returns an error for it and sends nothing
processSignalUnchecked(done) == TRUE

processSignal(done) == ~done

\* command.Wait() blocks until the child has exited
waitDoneAnyway(c) == TRUE

waitDone(c) == c = "exited"

InitSupervise ==
    /\ vars \in SuperviseTables
    /\ osEnviron \in ProcessEnvironments
    /\ commandVars = <<>>
    /\ childEnv = <<>>
    /\ earlier = <<>>
    /\ sentAfterReturn = <<>>
    /\ refused = 0
    /\ spc = "start"
    /\ listening = FALSE
    /\ child = "none"
    /\ exitStatus = 0
    /\ sigs = <<>>
    /\ inHand = <<>>
    /\ delivered = <<>>
    /\ forwarded = <<>>
    /\ waitErr = "none"
    /\ ret = "none"
    /\ slog = <<>>

\* command.Start() fails (the command is not found or cannot be started)
\* and executeCommand returns nil without a log line
StartFailsUnreported ==
    /\ spc = "start"
    /\ \E order \in Orderings(DOMAIN vars) : commandVars' = flattened(vars, order)
    /\ ret' = "nil"
    /\ spc' = "returned"
    /\ UNCHANGED <<listening, child, exitStatus, sigs, inHand, delivered, forwarded, waitErr,
                   slog, osEnviron, childEnv, earlier, sentAfterReturn, refused,
                   evars, tmplvars, fvars, mvars>>

\* command.Start() fails (the command is not found or cannot be started):
\* the error is logged and returned
StartFails ==
    /\ spc = "start"
    /\ \E order \in Orderings(DOMAIN vars) : commandVars' = flattened(vars, order)
    /\ slog' = Append(slog, "error executing command")
    /\ ret' = "error"
    /\ spc' = "returned"
    /\ UNCHANGED <<listening, child, exitStatus, sigs, inHand, delivered, forwarded, waitErr,
                   osEnviron, childEnv, earlier, sentAfterReturn, refused,
                   evars, tmplvars, fvars, mvars>>

\* command.Env = commandVars; command.Start() succeeds: the child runs with
\* the environment exec gives it, and its pid is logged
StartCommand ==
    /\ spc = "start"
    /\ \E order \in Orderings(DOMAIN vars) :
           /\ commandVars' = flattened(vars, order)
           /\ childEnv' = envv(flattened(vars, order), osEnviron)
    /\ child' = "running"
    /\ slog' = Append(slog, "process started")
    /\ spc' = "started"
    /\ UNCHANGED <<listening, exitStatus, sigs, inHand, delivered, forwarded, waitErr, ret,
                   osEnviron, earlier, sentAfterReturn, refused, evars, tmplvars, fvars, mvars>>

\* sigs := make(chan os.Signal, 1); signal.Notify(sigs)
NotifySignals ==
    /\ spc = "started"
    /\ spc' = "notified"
    /\ UNCHANGED <<listening, child, exitStatus, sigs, inHand, delivered, forwarded, waitErr,
                   ret, slog, evars, tmplvars, fvars, mvars, cvars>>

\* go func() { for sig := range sigs { ... } }(), then command.Wait() is entered
StartListener ==
    /\ spc = "notified"
    /\ listening' = TRUE
    /\ spc' = "waiting"
    /\ UNCHANGED <<child, exitStatus, sigs, inHand, delivered, forwarded, waitErr, ret, slog,
                   evars, tmplvars, fvars, mvars, cvars>>

\* a signal arrives between command.Start() and signal.Notify(sigs), and no
\* earlier call has a channel registered: nothing catches it, its default
\* action ends the supervisor, and the child runs on without it
DeliverUnnotified(sig) ==
    /\ spc = "started"
    /\ earlier = <<>>
    /\ Len(delivered) < MaxSignals
    /\ delivered' = Append(delivered, sig)
    /\ spc' = "killed"
    /\ UNCHANGED <<listening, child, exitStatus, sigs, inHand, forwarded, waitErr, ret, slog,
                   evars, tmplvars, fvars, mvars, cvars>>

\* the runtime hands a signal to the channel of signal.Notify with a
\* non-blocking send: a signal that finds the channel full is dropped
sendTwice(channel, sig) == channel \o <<sig, sig>>

sendNonBlocking(channel, sig) ==
    IF Len(channel) < SigChanCap THEN Append(channel, sig) ELSE channel

\* the channels of the earlier calls stay registered: each is handed the signal
relayed(listeners, sig) ==
    [i \in 1..Len(listeners) |->
        [listeners[i] EXCEPT !.sigs = sendNonBlocking(@, sig)]]

\* the channel of this call is registered
Notified == spc \in {"notified", "waiting", "returned"} /\ child # "none"

\* a signal arrives after signal.Notify(sigs)
Deliver(sig) ==
    /\ Notified
    /\ Len(delivered) < MaxSignals
    /\ delivered' = Append(delivered, sig)
    /\ sigs' = sendNonBlocking(sigs, sig)
    /\ earlier' = relayed(earlier, sig)
    /\ UNCHANGED <<spc, listening, child, exitStatus, inHand, forwarded, waitErr, ret, slog,
                   osEnviron, commandVars, childEnv, sentAfterReturn, refused,
                   evars, tmplvars, fvars, mvars>>

\* a signal arrives while only the channels of earlier calls are registered
DeliverEarlier(sig) ==
    /\ ~Notified
    /\ spc \in {"start", "started", "returned"}
    /\ earlier # <<>>
    /\ Len(delivered) < MaxSignals
    /\ delivered' = Append(delivered, sig)
    /\ earlier' = relayed(earlier, sig)
    /\ UNCHANGED <<spc, listening, child, exitStatus, sigs, inHand, forwarded, waitErr, ret, slog,
                   osEnviron, commandVars, childEnv, sentAfterReturn, refused,
                   evars, tmplvars, fvars, mvars>>

\* the goroutine takes the next signal from the channel
ListenerReceive ==
    /\ listening
    /\ inHand = <<>>
    /\ sigs # <<>>
    /\ inHand' = <<Head(sigs)>>
    /\ sigs' = Tail(sigs)
    /\ UNCHANGED <<spc, listening, child, exitStatus, delivered, forwarded, waitErr, ret, slog,
                   evars, tmplvars, fvars, mvars, cvars>>

\* command.Process.Signal(sig): the signal reaches the child if it still
\* runs; the error for a finished process is ignored
ListenerSend ==
    /\ listening
    /\ inHand # <<>>
    /\ \E sent \in {processSignal(spc = "returned")} :
           /\ forwarded' = IF sent /\ child = "running"
                           THEN Append(forwarded, inHand[1]) ELSE forwarded
           /\ sentAfterReturn' = IF sent /\ spc = "returned"
                                 THEN Append(sentAfterReturn, inHand[1]) ELSE sentAfterReturn
           /\ refused' = IF sent THEN refused ELSE refused + 1
    /\ inHand' = <<>>
    /\ UNCHANGED <<spc, listening, child, exitStatus, sigs, delivered, waitErr, ret, slog,
                   osEnviron, commandVars, childEnv, earlier, evars, tmplvars, fvars, mvars>>

\* the goroutine of an earlier call takes the next signal from its channel
EarlierListenerReceive(i) ==
    /\ earlier[i].inHand = <<>>
    /\ earlier[i].sigs # <<>>
    /\ earlier' = [earlier EXCEPT ![i] = [sigs   |-> Tail(earlier[i].sigs),
                                          inHand |-> <<Head(earlier[i].sigs)>>]]
    /\ UNCHANGED <<svars, osEnviron, commandVars, childEnv, sentAfterReturn, refused,
                   evars, tmplvars, fvars, mvars>>

\* the goroutine of an earlier call calls command.Process.Signal(sig) for
\* its child, whose Wait has returned
EarlierListenerSend(i) ==
    /\ earlier[i].inHand # <<>>
    /\ \E sent \in {processSignal(TRUE)} :
           /\ sentAfterReturn' = IF sent THEN Append(sentAfterReturn, earlier[i].inHand[1])
                                 ELSE sentAfterReturn
           /\ refused' = IF sent THEN refused ELSE refused + 1
    /\ earlier' = [earlier EXCEPT ![i].inHand = <<>>]
    /\ UNCHANGED <<svars, osEnviron, commandVars, childEnv, evars, tmplvars, fvars, mvars>>

\* the child exits, by itself or because of a signal
ChildExits(status) ==
    /\ child = "running"
    /\ child' = "exited"
    /\ exitStatus' = status
    /\ UNCHANGED <<spc, listening, sigs, inHand, delivered, forwarded, waitErr, ret, slog,
                   evars, tmplvars, fvars, mvars, cvars>>

\* the errors command.Wait() may return for a child that exited with status
WaitErrors(status) ==
    IF status = 0 THEN {"nil", "wait error"} ELSE {"exit status"}

\* what executeCommand returns after command.Wait() returned waitError
\* (err = command.Wait(); return nil)
resultAfterWait(waitError) == "nil"

\* command.Wait() returns once the child has exited, and executeCommand returns
WaitReturns ==
    /\ spc = "waiting"
    /\ waitDone(child)
    /\ \E e \in WaitErrors(exitStatus) :
           /\ waitErr' = e
           /\ ret' = resultAfterWait(e)
    /\ spc' = "returned"
    /\ UNCHANGED <<listening, child, exitStatus, sigs, inHand, delivered, forwarded, slog,
                   evars, tmplvars, fvars, mvars, cvars>>

\* executeCommand is called again after it has returned: the channel and the
\* goroutine of the call that returned stay as they are (the channel is never
\* closed, signal.Stop is never called)
ExecuteCommandAgain ==
    /\ spc = "returned"
    /\ execCalls < MaxCalls
    /\ execCalls' = execCalls + 1
    /\ earlier' = IF listening
                  THEN Append(earlier, [sigs |-> sigs, inHand |-> inHand]) ELSE earlier
    /\ spc' = "start"
    /\ listening' = FALSE
    /\ child' = "none"
    /\ exitStatus' = 0
    /\ sigs' = <<>>
    /\ inHand' = <<>>
    /\ forwarded' = <<>>
    /\ waitErr' = "none"
    /\ ret' = "none"
    /\ commandVars' = <<>>
    /\ childEnv' = <<>>
    /\ UNCHANGED <<delivered, slog, osEnviron, sentAfterReturn, refused, evars, tmplvars, fvars,
                   mpc, found, stageFailed, exitCode>>

---------------------------------------------------------------------------
(* findTemplateFiles and processTemplate                                   *)

\* the template directory holds files: name -> [text, readonly]; os.Create
\* of a readonly file fails with "permission denied"
NoFiles == [n \in {} |-> [text |-> <<>>, readonly |-> FALSE]]

File(text, readonly) == [text |-> text, readonly |-> readonly]

\* the directory with name holding file
WithFile(fs, name, file) ==
    [n \in DOMAIN fs \cup {name} |-> IF n = name THEN file ELSE fs[n]]

TemplateSuffix == <<".", "t", "m", "p", "l">>

\* strings.LastIndex(s, pat): the zero-based index of the last occurrence, or -1
LastIndex(s, pat) ==
    IF Occurrences(s, pat) = {} THEN -1 ELSE Max(Occurrences(s, pat)) - 1

\* the line of a logger call: its fixed text and what it is filled with
LogLine(text, arg) == [text |-> text, arg |-> arg]

\* findTemplateFiles: the names of the directory that end with ".tmpl", in
\* the order of ioutil.ReadDir (sorted by name), one log line for each
findTemplateFiles(fs) ==
    LET names == SelectSeq(SortStrings(DOMAIN fs), LAMBDA n : HasSuffix(n, TemplateSuffix))
    IN  [result |-> names,
         log    |-> [i \in 1..Len(names) |-> LogLine("found template:", names[i])]]

\* os.Create(targetname): fails for the empty name and for a readonly file;
\* otherwise the file exists and is empty
CreateFails(fs, targetname) ==
    \/ targetname = <<>>
    \/ targetname \in DOMAIN fs /\ fs[targetname].readonly

\* the error of os.Create
CreateError(targetname) ==
    LogLine(IF targetname = <<>> THEN "no such file or directory" ELSE "permission denied",
            targetname)

Created(fs, targetname) == WithFile(fs, targetname, File(<<>>, FALSE))

\* processTemplate that creates the destination before it parses the template
processTemplateCreatingFirst(fs, name, table, frc) ==
    LET suffixStart == LastIndex(name, TemplateSuffix)
        targetname  == Sub(name, 1, suffixStart)
        exists      == targetname \in DOMAIN fs
        invalid     == LogLine("error processing template: invalid template name", name)
        destination == LogLine("error processing template: destinaton exists:", targetname)
        overwriting == IF exists
                       THEN <<LogLine("overwriting existing file:", targetname)>> ELSE <<>>
    IN  IF suffixStart < 0
        THEN [files |-> fs, err |-> invalid, log |-> <<invalid>>]
        ELSE IF exists /\ ~frc
        THEN [files |-> fs, err |-> destination, log |-> <<destination>>]
        ELSE IF name \notin DOMAIN fs
        THEN [files |-> fs, err |-> LogLine("no such file or directory", name),
              log |-> overwriting \o <<LogLine("error processing template:", name)>>]
        ELSE LET t == Parse(fs[name].text)
             IN  IF t.err # ""
                 THEN [files |-> IF CreateFails(fs, targetname) THEN fs
                                 ELSE Created(fs, targetname),
                       err |-> LogLine(t.err, <<>>),
                       log |-> overwriting \o <<LogLine("error processing template:", <<>>)>>]
                 ELSE IF CreateFails(fs, targetname)
                 THEN [files |-> fs, err |-> CreateError(targetname),
                       log |-> overwriting \o <<LogLine("error creating file:", targetname)>>]
                 ELSE LET x == Executed(t.nodes, table)
                      IN  [files |-> WithFile(Created(fs, targetname), targetname,
                                              File(x.out, FALSE)),
                           err |-> IF x.err # "" THEN LogLine(x.err, <<>>) ELSE NoError,
                           log |-> overwriting]

\* processTemplate that logs a failure of os.Create and returns nil
processTemplateSwallowingCreate(fs, name, table, frc) ==
    LET suffixStart == LastIndex(name, TemplateSuffix)
        targetname  == Sub(name, 1, suffixStart)
        exists      == targetname \in DOMAIN fs
        invalid     == LogLine("error processing template: invalid template name", name)
        destination == LogLine("error processing template: destinaton exists:", targetname)
        overwriting == IF exists
                       THEN <<LogLine("overwriting existing file:", targetname)>> ELSE <<>>
    IN  IF suffixStart < 0
        THEN [files |-> fs, err |-> invalid, log |-> <<invalid>>]
        ELSE IF exists /\ ~frc
        THEN [files |-> fs, err |-> destination, log |-> <<destination>>]
        ELSE IF name \notin DOMAIN fs
        THEN [files |-> fs, err |-> LogLine("no such file or directory", name),
              log |-> overwriting \o <<LogLine("error processing template:", name)>>]
        ELSE LET t == Parse(fs[name].text)
             IN  IF t.err # ""
                 THEN [files |-> fs, err |-> LogLine(t.err, <<>>),
                       log |-> overwriting \o <<LogLine("error processing template:", <<>>)>>]
                 ELSE IF CreateFails(fs, targetname)
                 THEN [files |-> fs, err |-> NoError,
                       log |-> overwriting \o <<LogLine("error creating file:", targetname)>>]
                 ELSE LET x == Executed(t.nodes, table)
                      IN  [files |-> WithFile(Created(fs, targetname), targetname,
                                              File(x.out, FALSE)),
                           err |-> IF x.err # "" THEN LogLine(x.err, <<>>) ELSE NoError,
                           log |-> overwriting]

\* processTemplate in the directory fs: the directory, the error and the log
\* lines it leaves.  The target name is the filename up to the last ".tmpl"
\* in it; an existing target stops the call unless force is set; the
\* template is parsed, then the target is created (truncated), then the
\* template is executed into the target, which keeps what was written when
\* the execution fails.
processTemplate(fs, name, table, frc) ==
    LET suffixStart == LastIndex(name, TemplateSuffix)
        targetname  == Sub(name, 1, suffixStart)
        exists      == targetname \in DOMAIN fs
        invalid     == LogLine("error processing template: invalid template name", name)
        destination == LogLine("error processing template: destinaton exists:", targetname)
        overwriting == IF exists
                       THEN <<LogLine("overwriting existing file:", targetname)>> ELSE <<>>
    IN  IF suffixStart < 0
        THEN [files |-> fs, err |-> invalid, log |-> <<invalid>>]
        ELSE IF exists /\ ~frc
        THEN [files |-> fs, err |-> destination, log |-> <<destination>>]
        ELSE IF name \notin DOMAIN fs
        THEN [files |-> fs, err |-> LogLine("no such file or directory", name),
              log |-> overwriting \o <<LogLine("error processing template:", name)>>]
        ELSE LET t == Parse(fs[name].text)
             IN  IF t.err # ""
                 THEN [files |-> fs, err |-> LogLine(t.err, <<>>),
                       log |-> overwriting \o <<LogLine("error processing template:", <<>>)>>]
                 ELSE IF CreateFails(fs, targetname)
                 THEN [files |-> fs, err |-> CreateError(targetname),
                       log |-> overwriting \o <<LogLine("error creating file:", targetname)>>]
                 ELSE LET x == Executed(t.nodes, table)
                      IN  [files |-> WithFile(Created(fs, targetname), targetname,
                                              File(x.out, FALSE)),
                           err |-> IF x.err # "" THEN LogLine(x.err, <<>>) ELSE NoError,
                           log |-> overwriting]

---------------------------------------------------------------------------
(* The directories processTemplate is run on                               *)

nTemplate  == <<"t", ".", "t", "m", "p", "l">>
\* a name that holds ".tmpl" and does not end with it
nBackup    == <<"t", ".", "t", "m", "p", "l", ".", "b">>
\* a name without ".tmpl"
nText      == <<"t", ".", "t", "x", "t">>
\* the suffix alone: its target name is empty
nSuffix    == <<".", "t", "m", "p", "l">>
\* the target of nTemplate
nTarget    == <<"t">>

\* what the target holds before the call
OldText == <<"o">>

TemplateTexts == {sText \o sE, sField, sUnclosed, sText \o sNoArg}

\* the directories: the template, the other names and the target are there or not
Directories ==
    {[n \in names |->
         IF n = nTemplate THEN File(text, FALSE)
         ELSE IF n = nTarget THEN File(OldText, ro)
         ELSE File(sText \o sE, FALSE)] :
        names \in SUBSET {nTemplate, nBackup, nText, nSuffix, nTarget},
        text \in TemplateTexts,
        ro \in BOOLEAN}

FileTables ==
    {EmptyTable, [k \in {kF} |-> <<<<"a">>>>], [k \in {kF} |-> <<<<"a">>, <<"b">>>>]}

InitFiles ==
    /\ files \in Directories
    /\ files0 = files
    /\ filename \in {nTemplate, nBackup, nText, nSuffix}
    /\ force \in BOOLEAN
    /\ tvars \in FileTables
    /\ fpc = "start"
    /\ ferr = NoError
    /\ flog = <<>>

\* a call of processTemplate(env, dirname, filename, vars, force)
ProcessTemplate ==
    /\ fpc = "start"
    /\ \E r \in {processTemplate(files, filename, tvars, force)} :
           /\ files0' = files
           /\ files' = r.files
           /\ ferr' = r.err
           /\ flog' = r.log
    /\ fpc' = "done"
    /\ UNCHANGED <<filename, force, evars, tmplvars, svars, mvars, cvars>>

---------------------------------------------------------------------------
(* main                                                                    *)

\* exitOnError(err): os.Exit(1) is called when err is not nil
exitOnErrorNever(failed) == FALSE

exitOnError(failed) == failed

\* the name of the one directory there is
nDir == <<"d">>

\* a second template file, with the target u
nSecond == <<"u", ".", "t", "m", "p", "l">>
nSecondTarget == <<"u">>

MainEnvironments == {<<ePlain>>, <<eNoEquals>>}

MainCmds == {sText, sUnclosed}

\* the directory, a template that does not parse and the name of no directory
MainDirs == {nDir, sUnclosed, sText}

MainDirectories ==
    {[n \in names |->
         IF n \in {nTarget, nSecondTarget} THEN File(OldText, FALSE) ELSE File(text, FALSE)] :
        names \in SUBSET {nTemplate, nSecond, nTarget, nSecondTarget},
        text \in {sText \o sE, sUnclosed}}

\* vars := readExtendedVariables(e)
MainReadVariables ==
    /\ mpc = "env"
    /\ ~Panics(env)
    /\ \E st \in {readExtendedVariables(env)} :
           \E order \in Orderings(st.summary) :
               /\ vars' = st.result
               /\ elog' = st.log \o
                            [i \in 1..Len(order) |-> UseLine(order[i], st.result[order[i]])]
    /\ mpc' = "args"
    /\ UNCHANGED <<env, epc, tmplvars, svars, fvars, found, execCalls, stageFailed, exitCode, cvars>>

\* readExtendedVariables panics: the run ends with the exit status of a panic
MainPanics ==
    /\ mpc = "env"
    /\ Panics(env)
    /\ mpc' = "exited"
    /\ exitCode' = 2
    /\ UNCHANGED <<evars, tmplvars, svars, fvars, found, execCalls, stageFailed, cvars>>

\* cmd, dir, argErr := fillArgs(e, *rawCmd, *rawDir, vars); exitOnError(argErr)
MainFillArgs ==
    /\ mpc = "args"
    /\ \E r \in {fillArgs(cmdSrc, dirSrc, vars)} :
           /\ tout' = [cmd |-> r.cmd, dir |-> r.dir, err |-> r.err]
           /\ tlog' = r.log
           /\ stageFailed' = (stageFailed \/ r.err # NoError)
           /\ IF exitOnError(r.err # NoError)
              THEN mpc' = "exited" /\ exitCode' = 1
              ELSE mpc' = "find" /\ UNCHANGED exitCode
    /\ UNCHANGED <<tvars, cmdSrc, dirSrc, tpc, evars, svars, fvars, found, execCalls, cvars>>

\* files, findErr := findTemplateFiles(e, dir); exitOnError(findErr):
\* ioutil.ReadDir fails for every name but that of the directory
MainFindTemplateFiles ==
    /\ mpc = "find"
    /\ \E failed \in {tout.dir # nDir} :
           /\ stageFailed' = (stageFailed \/ failed)
           /\ IF failed
              THEN /\ flog' = Append(flog, LogLine("cannot read dir:", tout.dir))
                   /\ found' = <<>>
              ELSE /\ flog' = flog \o findTemplateFiles(files).log
                   /\ found' = findTemplateFiles(files).result
           /\ IF exitOnError(failed)
              THEN mpc' = "exited" /\ exitCode' = 1
              ELSE mpc' = "loop" /\ UNCHANGED exitCode
    /\ UNCHANGED <<files, files0, filename, force, fpc, ferr, evars, tmplvars, svars, execCalls, cvars>>

\* the body of the loop: err := processTemplate(e, dir, file, vars, *force);
\* exitOnError(err)
MainProcessTemplate ==
    /\ mpc = "loop"
    /\ found # <<>>
    /\ \E r \in {processTemplate(files, Head(found), vars, force)} :
           /\ filename' = Head(found)
           /\ files0' = files
           /\ files' = r.files
           /\ ferr' = r.err
           /\ flog' = flog \o r.log
           /\ stageFailed' = (stageFailed \/ r.err # NoError)
           /\ IF exitOnError(r.err # NoError)
              THEN mpc' = "exited" /\ exitCode' = 1 /\ UNCHANGED found
              ELSE mpc' = "loop" /\ found' = Tail(found) /\ UNCHANGED exitCode
    /\ UNCHANGED <<force, fpc, evars, tmplvars, svars, execCalls, cvars>>

\* the loop is over: execErr := executeCommand(e, cmd, flag.Args(), vars)
MainExecuteCommand ==
    /\ mpc = "loop"
    /\ found = <<>>
    /\ spc = "idle"
    /\ spc' = "start"
    /\ execCalls' = execCalls + 1
    /\ mpc' = "cmd"
    /\ UNCHANGED <<listening, child, exitStatus, sigs, inHand, delivered, forwarded, waitErr,
                   ret, slog, evars, tmplvars, fvars, found, stageFailed, exitCode, cvars>>

\* a signal that nothing catches ends the run
MainKilled ==
    /\ mpc = "cmd"
    /\ spc = "killed"
    /\ mpc' = "exited"
    /\ exitCode' = 128
    /\ UNCHANGED <<evars, tmplvars, svars, fvars, found, execCalls, stageFailed, cvars>>

\* executeCommand has returned: exitOnError(execErr); os.Exit(0); the
\* goroutine ends with the process
MainExit ==
    /\ mpc = "cmd"
    /\ spc = "returned"
    /\ mpc' = "exited"
    /\ exitCode' = IF exitOnError(ret # "nil") THEN 1 ELSE 0
    /\ spc' = "exited"
    /\ listening' = FALSE
    /\ UNCHANGED <<child, exitStatus, sigs, inHand, delivered, forwarded, waitErr, ret, slog,
                   evars, tmplvars, fvars, found, execCalls, stageFailed, cvars>>

---------------------------------------------------------------------------
(* What the claims speak of, stated without the code's own operators       *)

\* the position of the first "=" of an entry
FirstEquals(e) == Min({i \in 1..Len(e) : e[i] = "="})

HasEquals(e) == \E i \in 1..Len(e) : e[i] = "="

\* the name of an entry: the text before its first "="
EntryName(e) == IF HasEquals(e) THEN Sub(e, 1, FirstEquals(e) - 1) ELSE e

\* the value of an entry: the text after its first "="
EntryValue(e) == IF HasEquals(e) THEN Sub(e, FirstEquals(e) + 1, Len(e)) ELSE <<>>

\* the values the entries give to name, in input order
RECURSIVE RawValues(_, _)
RawValues(entries, name) ==
    IF entries = <<>> THEN <<>>
    ELSE (IF EntryName(Head(entries)) = name THEN <<EntryValue(Head(entries))>> ELSE <<>>)
           \o RawValues(Tail(entries), name)

\* seq starts with prefix
StartsWith(seq, prefix) ==
    /\ Len(prefix) <= Len(seq)
    /\ \A i \in 1..Len(prefix) : seq[i] = prefix[i]

\* the first position of x in seq
Pos(seq, x) == Min({i \in 1..Len(seq) : seq[i] = x})

\* the parts link variables are made of
AppNames    == {<<"A">>, <<"K">>}
IndexParts  == {<<>>, <<"_", "2">>, <<"_", "1", "0">>}
PortNumbers == {<<"1">>, <<"2">>, <<"3">>, <<"5">>}
Schemes     == {<<"t">>, <<"u">>}
Hosts       == {<<"f">>, <<"g">>, <<"h">>}

\* the link variable APP[_INDEX]_PORT_<p>_TCP=<scheme>://<host>:<q>
LinkEntry(app, index, p, scheme, host, q) ==
    app \o index \o <<"_", "P", "O", "R", "T", "_">> \o p \o <<"_", "T", "C", "P", "=">> \o scheme \o <<":", "/", "/">> \o host \o <<":">> \o q

LinkShapes ==
    {[app |-> a, index |-> x, p |-> p, scheme |-> s, host |-> h, q |-> q] :
        a \in AppNames, x \in IndexParts, p \in PortNumbers,
        s \in Schemes, h \in Hosts, q \in PortNumbers}

\* the link variables of the pool with their parts
PoolLinks ==
    {l \in LinkShapes : LinkEntry(l.app, l.index, l.p, l.scheme, l.host, l.q) \in EnvPool}

LinkText(l) == LinkEntry(l.app, l.index, l.p, l.scheme, l.host, l.q)

LinkUrl(l) == <<"h", "t", "t", "p", ":", "/", "/">> \o l.host \o <<":">> \o l.q

AppUrlKey(l) == l.app \o <<"_", "U", "R", "L">>

AppPortUrlKey(l) == l.app \o <<"_">> \o l.p \o <<"_", "U", "R", "L">>

\* the link variables of the pool that occur in entries, each with the
\* primary (first) value of its name
LinksIn(entries) ==
    {l \in PoolLinks :
        \E i \in 1..Len(entries) :
            /\ entries[i] = LinkText(l)
            /\ \A j \in 1..(i - 1) : EntryName(entries[j]) # EntryName(entries[i])}

---------------------------------------------------------------------------
(* The claims                                                              *)

\* C1: for every name N of the raw environment, the value list of N in the
\* returned table starts with N's raw values (the text after the first "=" of
\* each of N's entries) in their input order, and whatever follows them is a
\* URL derived from a link variable of the environment, whether the link
\* variable stands before or after N in the input.
C1_RawValuesStayInFront ==
    epc = "done" =>
        \A i \in 1..Len(env) :
            \E name \in {EntryName(env[i])} :
                \E raw \in {RawValues(env, name)} :
                    /\ name \in DOMAIN vars
                    /\ StartsWith(vars[name], raw)
                    /\ \A n \in (Len(raw) + 1)..Len(vars[name]) :
                           \E l \in LinksIn(env) : vars[name][n] = LinkUrl(l)

\* C8: for the environment of one link variable
\* APP[_INDEX]_PORT_<p>_TCP=<scheme>://<host>:<q> the table has exactly three
\* keys: the link variable with its raw value, APP_URL and APP_<p>_URL, both
\* holding the one value http://<host>:<q>.
C8_SingleLinkVariable ==
    epc = "done" /\ Len(env) = 1 =>
        \A l \in LinksIn(env) :
            \E name \in {EntryName(env[1])} :
                /\ DOMAIN vars = {name, AppUrlKey(l), AppPortUrlKey(l)}
                /\ Cardinality(DOMAIN vars) = 3
                /\ vars[name] = <<l.scheme \o <<":", "/", "/">> \o l.host \o <<":">> \o l.q>>
                /\ vars[AppUrlKey(l)] = <<LinkUrl(l)>>
                /\ vars[AppPortUrlKey(l)] = <<LinkUrl(l)>>

\* C8, witness: A_PORT_1_TCP=t://h:2 alone gives A_URL and A_1_URL
C8_Witness ==
    /\ epc = "done"
    /\ env = <<eLink>>
    /\ DOMAIN vars = {<<"A", "_", "P", "O", "R", "T", "_", "1", "_", "T", "C", "P">>, <<"A", "_", "U", "R", "L">>, <<"A", "_", "1", "_", "U", "R", "L">>}
    /\ vars[<<"A", "_", "1", "_", "U", "R", "L">>] = <<<<"h", "t", "t", "p", ":", "/", "/", "h", ":", "2">>>>

\* C9: when several link variables with distinct URLs contribute to the same
\* derived key (neither URL being a raw value of that key already), the key
\* holds the URLs of all of them, in the ascending byte order of the names
\* of the link variables, whatever the order of the entries.
C9_DerivedInKeyOrder ==
    epc = "done" =>
        \A a, b \in LinksIn(env) :
            \A key \in {AppUrlKey(a), AppPortUrlKey(a)} \cap {AppUrlKey(b), AppPortUrlKey(b)} :
                /\ StrLess(EntryName(LinkText(a)), EntryName(LinkText(b)))
                /\ LinkUrl(a) # LinkUrl(b)
                /\ ~InSeq(RawValues(env, key), LinkUrl(a))
                /\ ~InSeq(RawValues(env, key), LinkUrl(b))
                => /\ key \in DOMAIN vars
                   /\ InSeq(vars[key], LinkUrl(a))
                   /\ InSeq(vars[key], LinkUrl(b))
                   /\ Pos(vars[key], LinkUrl(a)) < Pos(vars[key], LinkUrl(b))

\* C9, witness: three link variables of A, port 1, arrive in descending
\* order of their names and A_URL and A_1_URL hold the URLs in ascending order
C9_Witness ==
    /\ epc = "done"
    /\ env = <<eLink, eLink2, eLink10>>
    /\ vars[<<"A", "_", "U", "R", "L">>] = <<<<"h", "t", "t", "p", ":", "/", "/", "f", ":", "1">>, <<"h", "t", "t", "p", ":", "/", "/", "g", ":", "1">>, <<"h", "t", "t", "p", ":", "/", "/", "h", ":", "2">>>>
    /\ vars[<<"A", "_", "1", "_", "U", "R", "L">>] = vars[<<"A", "_", "U", "R", "L">>]

\* no name occurs twice
NoRepeatedName(entries) ==
    \A i, j \in 1..Len(entries) : i # j => EntryName(entries[i]) # EntryName(entries[j])

\* C10: two environments that are permutations of each other, with no name
\* repeated, have the same entries in sorted order; the table returned for
\* an environment equals the table for its entries in sorted order, so the
\* tables of the two are equal.
C10_TableIgnoresEntryOrder ==
    epc = "done" /\ NoRepeatedName(env) =>
        vars = readExtendedVariables(SortStrings({env[i] : i \in 1..Len(env)})).result

\* C10, witness: an environment that is not in sorted order and whose
\* derived key has one value per link variable
C10_Witness ==
    /\ epc = "done"
    /\ env = <<eLink, eAppUrl, eLink2>>
    /\ vars[<<"A", "_", "U", "R", "L">>] = <<<<"F">>, <<"h", "t", "t", "p", ":", "/", "/", "g", ":", "1">>, <<"h", "t", "t", "p", ":", "/", "/", "h", ":", "2">>>>

\* C2: once the child has exited and executeCommand has returned, the
\* returned error is nil exactly when command.Wait() reported no error.
C2_ResultIsExitStatus ==
    spc = "returned" /\ child = "exited" => (ret = "nil" <=> waitErr = "nil")

\* C3: while the child runs, every signal delivered to the supervisor is
\* forwarded: whenever no signal is on its way (the channel is empty and the
\* goroutine holds none), the signals forwarded are the signals delivered.
C3_EverySignalForwarded ==
    child = "running" /\ sigs = <<>> /\ inHand = <<>> => forwarded = delivered

\* the keys a well-formed template refers to, in whatever form
ReferencedKeys(src) ==
    LET t == Parse(src)
    IN  IF t.err # "" THEN {}
        ELSE {t.nodes[i].key :
                 i \in {n \in 1..Len(t.nodes) : t.nodes[n].type \in {"field", "E", "J"}}}

CouldNotFill(src) == [msg |-> "could not fill all markup in:", arg |-> src]

BareReferences(src) ==
    LET t == Parse(src)
    IN  IF t.err # "" \/ Executed(t.nodes, EmptyTable).err # "" THEN {}
        ELSE {t.nodes[i].key : i \in {n \in 1..Len(t.nodes) : t.nodes[n].type = "field"}}

FirstValue(table, key) ==
    IF key \in DOMAIN table /\ Len(table[key]) > 0 THEN table[key][1] ELSE <<>>

\* C5: {{E .KEY}}, alone or between literal text, renders as the first
\* element of KEY's list; when KEY is absent or its list is empty it renders
\* as the empty string and processString returns the text with no error, as
\* it does for every first element that does not hold the text "<no value>".
C5_FirstElement ==
    tpc = "processed" =>
        \A pre, post \in {<<>>, sText} :
            cmdSrc = pre \o sE \o post =>
                \E first \in {FirstValue(tvars, kF)} :
                    /\ Execute(Parse(cmdSrc).nodes, tvars) = pre \o first \o post
                    /\ (kF \notin DOMAIN tvars \/ tvars[kF] = <<>>) =>
                           tout = [str |-> pre \o post, err |-> NoError]
                    /\ ~Contains(first, NoValue) =>
                           tout = [str |-> pre \o first \o post, err |-> NoError]

\* C5, witness: {{E .F}} with F = [a, b] renders a
C5_Witness ==
    /\ tpc = "processed"
    /\ cmdSrc = sE
    /\ kF \in DOMAIN tvars
    /\ tvars[kF] = <<<<"a">>, <<"b">>>>
    /\ tout = [str |-> <<"a">>, err |-> NoError]

\* the elements of values in order with sep between neighbours
RECURSIVE Joined(_, _, _)
Joined(values, sep, n) ==
    IF n = 0 THEN <<>>
    ELSE IF n = 1 THEN values[1]
    ELSE Joined(values, sep, n - 1) \o sep \o values[n]

\* C6: {{J .KEY}} renders as the elements of KEY's list in order, joined by
\* ","; {{J .KEY "#"}} joins them by "#"; a list of one element renders as
\* that element; when KEY is absent or its list is empty both render as the
\* empty string and processString returns it with no error, as it does for
\* every joined text that does not hold "<no value>".
C6_JoinedElements ==
    tpc = "processed" =>
        \A form \in {[src |-> sJ, sep |-> <<",">>], [src |-> sJSep, sep |-> <<"#">>]} :
            cmdSrc = form.src =>
                \E values \in {IF kF \in DOMAIN tvars THEN tvars[kF] ELSE <<>>} :
                    \E text \in {Joined(values, form.sep, Len(values))} :
                        /\ Execute(Parse(cmdSrc).nodes, tvars) = text
                        /\ Len(values) = 1 => text = values[1]
                        /\ values = <<>> => tout = [str |-> <<>>, err |-> NoError]
                        /\ ~Contains(text, NoValue) =>
                               tout = [str |-> text, err |-> NoError]

\* C6, witness: {{J .F "#"}} with F = [a, b] renders a#b
C6_Witness ==
    /\ tpc = "processed"
    /\ cmdSrc = sJSep
    /\ kF \in DOMAIN tvars
    /\ tvars[kF] = <<<<"a">>, <<"b">>>>
    /\ tout = [str |-> <<"a", "#", "b">>, err |-> NoError]

\* C7: whenever fillArgs returns an error, both returned strings are empty.
C7_ErrorMeansBothEmpty ==
    tpc = "filled" /\ tout.err # NoError => tout.cmd = <<>> /\ tout.dir = <<>>


\* C11: no key of the returned table holds the same value twice, also when
\* the environment repeats a name.
C11_NoValueTwice ==
    epc = "done" =>
        \A k \in DOMAIN vars :
            \A i, j \in 1..Len(vars[k]) : i # j => vars[k][i] # vars[k][j]

\* C12: every entry is split at its first "=": the text before it is a key
\* of the table, and the text after it, further "=" included, is one of the
\* values of that key.
C12_SplitOnFirstEquals ==
    epc = "done" =>
        \A i \in 1..Len(env) :
            /\ EntryName(env[i]) \in DOMAIN vars
            /\ InSeq(vars[EntryName(env[i])], EntryValue(env[i]))

\* the text is of the shape scheme://host:port, the port being digits
MatchesLinkValue(v) ==
    \E i \in Occurrences(v, <<":", "/", "/">>) :
        \E j \in (i + 3)..(Len(v) - 1) :
            /\ v[j] = ":"
            /\ \A n \in (j + 1)..Len(v) : IsDigit(v[n])

\* the link-pattern keys of the table whose primary value is no scheme://host:port
InvalidLinkKeys(table) ==
    {k \in DOMAIN table : parseLinkkey(k).app # <<>> /\ ~MatchesLinkValue(table[k][1])}

\* the entries whose names are not in names
WithoutNames(entries, names) == SelectSeq(entries, LAMBDA e : EntryName(e) \notin names)

\* C13: a link-pattern key whose primary value is no scheme://host:port
\* leaves the log line "found invalid link value in <value>" and nothing
\* else: the returned table is the table of the environment without that
\* key, with the key and its own values added, so that no key or value
\* comes from it and every other link key is derived as without it; and the
\* call is only ever aborted by an entry without "=".
C13_InvalidLinkValueSkipped ==
    /\ epc = "panic" => \E i \in 1..Len(env) : ~HasEquals(env[i])
    /\ epc = "done" =>
           \E bad \in {InvalidLinkKeys(vars)} :
               \E rest \in {readExtendedVariables(WithoutNames(env, bad)).result} :
                   /\ \A k \in bad : InSeq(elog, InvalidLine(vars[k][1]))
                   /\ DOMAIN vars = DOMAIN rest \cup bad
                   /\ \A k \in DOMAIN rest : vars[k] = rest[k]
                   /\ \A k \in bad : vars[k] = readEnvEntries(env, EmptyTable)[k]

\* C13, witness: the invalid link key of A is processed first, is logged,
\* and the link variable of A after it still gives A_URL and A_1_URL
C13_Witness ==
    /\ epc = "done"
    /\ env = <<eLink, eInvalidFirst>>
    /\ elog[1] = InvalidLine(<<"t">>)
    /\ DOMAIN vars = {EntryName(eLink), EntryName(eInvalidFirst), AppUrlKey([app |-> <<"A">>]), <<"A", "_", "1", "_", "U", "R", "L">>}
    /\ vars[<<"A", "_", "1", "_", "U", "R", "L">>] = <<<<"h", "t", "t", "p", ":", "/", "/", "h", ":", "2">>>>

\* C14: when no name of the environment matches the link-key pattern, the
\* keys of the returned table are the names of the entries, each key holds
\* exactly its raw values, and nothing is logged.
C14_NoLinkKeysNoChange ==
    epc = "done" /\ (\A i \in 1..Len(env) : parseLinkkey(EntryName(env[i])).app = <<>>) =>
        /\ DOMAIN vars = {EntryName(env[i]) : i \in 1..Len(env)}
        /\ \A k \in DOMAIN vars : vars[k] = RawValues(env, k)
        /\ elog = <<>>

\* the filename ends with ".tmpl"
IsTemplateName(name) == HasSuffix(name, TemplateSuffix)

\* the name of the target: the filename without its suffix ".tmpl"
TargetName(name) == Sub(name, 1, Len(name) - Len(TemplateSuffix))

\* what the template text renders to against the table
Rendered(text, table) == Executed(Parse(text).nodes, table).out

\* the call gets as far as parsing the template file: the name is valid and
\* no existing target stops it
ReachesParse ==
    /\ IsTemplateName(filename)
    /\ (TargetName(filename) \in DOMAIN files0 => force)

\* the template file is there and is parsed without error
Parses == filename \in DOMAIN files0 /\ Parse(files0[filename].text).err = ""

\* C15: when a file exists at the target name, processTemplate without
\* force returns the error "... destination exists: <target>" and leaves the
\* directory as it was; with force it logs "overwriting existing file:
\* <target>" and, when it returns no error, the target holds the rendered
\* template.
C15_ExistingTarget ==
    fpc = "done" /\ IsTemplateName(filename) /\ TargetName(filename) \in DOMAIN files0 =>
        \E target \in {TargetName(filename)} :
            IF ~force
            THEN /\ ferr = LogLine("error processing template: destination exists:", target)
                 /\ files = files0
            ELSE /\ InSeq(flog, LogLine("overwriting existing file:", target))
                 /\ (ferr = NoError =>
                        files[target].text = Rendered(files0[filename].text, tvars))

\* C16: processTemplate returns an error whenever rendering fails, be it
\* an error of the execution or a bare reference to a key absent from the
\* table, and it never returns without error with "<no value>" written to
\* the target.
C16_RenderErrorReturned ==
    fpc = "done" /\ ReachesParse /\ Parses =>
        \E text \in {files0[filename].text} :
            /\ Executed(Parse(text).nodes, tvars).err # "" => ferr # NoError
            /\ (\E k \in BareReferences(text) : k \notin DOMAIN tvars) => ferr # NoError
            /\ ferr = NoError => ~Contains(files[TargetName(filename)].text, NoValue)

\* C17: for a filename that does not end with ".tmpl" processTemplate
\* returns an error and leaves the directory as it was.
C17_InvalidNameRejected ==
    fpc = "done" /\ ~IsTemplateName(filename) => ferr # NoError /\ files = files0

\* C18: when the template file does not parse, the directory is left as
\* it was (no target is created, an existing target keeps its text), with
\* or without force; and when the call gets as far as parsing, it returns
\* the parse error and logs "error processing template:".
C18_ParseErrorLeavesTarget ==
    fpc = "done" /\ filename \in DOMAIN files0 /\ Parse(files0[filename].text).err # "" =>
        /\ files = files0
        /\ ReachesParse =>
               /\ ferr = LogLine(Parse(files0[filename].text).err, <<>>)
               /\ InSeq(flog, LogLine("error processing template:", <<>>))

\* C18, witness: the unclosed template, force set, the target exists and
\* keeps its text
C18_Witness ==
    /\ fpc = "done"
    /\ filename = nTemplate
    /\ force
    /\ nTemplate \in DOMAIN files0 /\ files0[nTemplate].text = sUnclosed
    /\ nTarget \in DOMAIN files0 /\ ~files0[nTarget].readonly
    /\ files[nTarget].text = OldText
    /\ ferr = LogLine("unclosed action", <<>>)

\* C19: when the call gets as far as creating the target and the target
\* cannot be created (it exists and is readonly, or its name is empty),
\* processTemplate returns the error of the creation, logs "error creating
\* file:", and leaves the directory as it was: nothing is rendered and the
\* existing target keeps its text.
C19_CreateErrorLeavesTarget ==
    fpc = "done" /\ ReachesParse /\ Parses =>
        \E target \in {TargetName(filename)} :
            (target = <<>> \/ (target \in DOMAIN files0 /\ files0[target].readonly)) =>
                /\ ferr # NoError
                /\ ferr.text \in {"permission denied", "no such file or directory"}
                /\ InSeq(flog, LogLine("error creating file:", target))
                /\ files = files0

\* C19, witness: force set, the target exists and is readonly; it keeps
\* its text and the error is "permission denied"
C19_Witness ==
    /\ fpc = "done"
    /\ filename = nTemplate
    /\ force
    /\ nTemplate \in DOMAIN files0 /\ files0[nTemplate].text = sText \o sE
    /\ nTarget \in DOMAIN files0 /\ files0[nTarget].readonly
    /\ files[nTarget] = File(OldText, TRUE)
    /\ ferr = LogLine("permission denied", nTarget)

\* C20: once the rendering of the arguments, the listing of the directory
\* or the processing of a template file has returned an error,
\* executeCommand is not called and no child is started, and the run ends
\* with an exit status that is not 0.
C20_NoCommandAfterFailure ==
    stageFailed =>
        /\ execCalls = 0
        /\ spc = "idle" /\ child = "none"
        /\ mpc = "exited"
        /\ exitCode = 1

\* C20, witness: the first template file was processed, the second one
\* failed, and the run has ended with status 1 without the command
C20_Witness ==
    /\ mpc = "exited"
    /\ stageFailed
    /\ filename = nSecond
    /\ ferr # NoError
    /\ nTarget \in DOMAIN files
    /\ files[nTarget].text = <<"c", "B">>
    /\ execCalls = 0
    /\ exitCode = 1

\* the elements of a sequence
Elements(seq) == {seq[i] : i \in 1..Len(seq)}

\* C21: the environment the child is started with holds one entry per key of
\* the table, NAME=VALUE with the first value of the key, and nothing else.
C21_ChildEnvironmentIsTable ==
    child # "none" =>
        /\ Len(childEnv) = Cardinality(DOMAIN vars)
        /\ Elements(childEnv) = {k \o <<"=">> \o vars[k][1] : k \in DOMAIN vars}

\* C22: when command.Start() fails (the command is not found or the process
\* cannot be started), executeCommand has logged "error executing command"
\* and returned an error, and it has neither started a goroutine nor called
\* command.Wait().
C22_StartFailureReported ==
    spc = "returned" /\ child = "none" =>
        /\ ret = "error"
        /\ InSeq(slog, "error executing command")
        /\ waitErr = "none"
        /\ ~listening

C22_Witness ==
    /\ spc = "returned" /\ child = "none"
    /\ slog = <<"error executing command">>
    /\ vars # EmptyTable

\* C23: after a successful start executeCommand has returned only if the
\* child has exited, whatever signals were received; and once the child has
\* exited while executeCommand waits, executeCommand returns.
C23_ReturnsWhenChildExited ==
    /\ [](spc = "returned" /\ child # "none" => child = "exited")
    /\ (spc = "waiting" /\ child = "exited") ~> (spc = "returned")

C23_Witness ==
    /\ spc = "returned" /\ child = "exited"
    /\ Len(delivered) >= 2
    /\ forwarded # <<>>

\* C24: once processTemplate has failed for a file of the list, that call is
\* the last one: main has exited with the failing file still first in the
\* list, and every file of the directory but the target of the failing file
\* (the targets of the later files, the targets written for the earlier
\* files) is as it was when the failing call began.
C24_FailureEndsTheLoop ==
    stageFailed /\ found # <<>> =>
        /\ mpc = "exited"
        /\ filename = Head(found)
        /\ ferr # NoError
        /\ \A n \in (DOMAIN files \cup DOMAIN files0) \ {TargetName(filename)} :
               /\ n \in DOMAIN files
               /\ n \in DOMAIN files0
               /\ files[n] = files0[n]

C24_Witness ==
    /\ mpc = "exited" /\ stageFailed
    /\ found = <<nTemplate, nSecond>>
    /\ filename = nTemplate
    /\ nTarget \in DOMAIN files
    /\ nSecondTarget \notin DOMAIN files

\* how often x occurs in seq
Count(seq, x) == Cardinality({i \in 1..Len(seq) : seq[i] = x})

\* a value no variable of the pool holds
FreshValue == <<"h", "t", "t", "p", ":", "/", "/", "n", ":", "9">>

\* C25: in the returned table the URL of every link variable stands in each
\* of its two derived keys exactly once, unless the raw entries of that key
\* hold it already, in which case nothing was added to them: two link
\* variables with the same host and port contribute one entry.  On that
\* table addNew with a value the key holds returns false and changes nothing
\* (the same addition a second time equals the first), and with a value the
\* key does not hold it returns true and appends the value to the key,
\* leaving every other key as it is.
C25_DerivedValueAddedOnce ==
    epc = "done" =>
        \E raw \in {readEnvEntries(env, EmptyTable)} :
            \A l \in LinksIn(env) :
                \A key \in {AppUrlKey(l), AppPortUrlKey(l)} :
                    /\ key \in DOMAIN vars
                    /\ Count(vars[key], LinkUrl(l)) =
                           IF LinkUrl(l) \in Elements(Lookup(raw, key))
                           THEN Count(raw[key], LinkUrl(l)) ELSE 1
                    /\ addNew(vars, key, LinkUrl(l)) = [m |-> vars, isSet |-> FALSE]
                    /\ \E r \in {addNew(vars, key, FreshValue)} :
                           /\ r.isSet
                           /\ DOMAIN r.m = DOMAIN vars
                           /\ r.m[key] = vars[key] \o <<FreshValue>>
                           /\ \A k \in DOMAIN vars \ {key} : r.m[k] = vars[k]
                           /\ addNew(r.m, key, FreshValue) = [m |-> r.m, isSet |-> FALSE]

\* C25, witness: two link variables of A with the URL http://g:1
C25_Witness ==
    /\ epc = "done"
    /\ env = <<eLink2, eLinkPort3>>
    /\ vars[<<"A", "_", "U", "R", "L">>] = <<<<"h", "t", "t", "p", ":", "/", "/", "g", ":", "1">>>>
    /\ vars[<<"A", "_", "1", "_", "U", "R", "L">>] = <<<<"h", "t", "t", "p", ":", "/", "/", "g", ":", "1">>>>
    /\ vars[<<"A", "_", "3", "_", "U", "R", "L">>] = <<<<"h", "t", "t", "p", ":", "/", "/", "g", ":", "1">>>>

\* C26: every key of the returned table has at least one value, so that the
\* first value of a key exists wherever it is taken.
C26_EveryKeyHasAValue ==
    epc = "done" => \A k \in DOMAIN vars : Len(vars[k]) >= 1

\* C26, witness: a variable with an empty value is a key with one value, ""
C26_Witness ==
    /\ epc = "done"
    /\ env = <<eEmptyValue, eLink>>
    /\ vars[<<"G">>] = <<<<>>>>
    /\ vars[<<"A", "_", "U", "R", "L">>] = <<<<"h", "t", "t", "p", ":", "/", "/", "h", ":", "2">>>>

\* C27: readExtendedVariables returns for every list of raw entries: the
\* call never ends in a panic.
C27_AlwaysReturnsTable == epc # "panic"

\* C28: when the template parses, its calls of E and J have their argument
\* and every key it refers to is a key of the table, processString returns
\* the substituted text and no error.
C28_PresentKeysRender ==
    /\ tpc = "processed"
    /\ Parse(cmdSrc).err = ""
    /\ Executed(Parse(cmdSrc).nodes, tvars).err = ""
    /\ ReferencedKeys(cmdSrc) \subseteq DOMAIN tvars
    => /\ tout.err = NoError
       /\ tout.str = Rendered(cmdSrc, tvars)

RECURSIVE IsSubsequence(_, _)
IsSubsequence(a, b) ==
    IF a = <<>> THEN TRUE
    ELSE IF b = <<>> THEN FALSE
    ELSE IF Head(a) = Head(b) THEN IsSubsequence(Tail(a), Tail(b))
    ELSE IsSubsequence(a, Tail(b))

\* C30: the signals sent to the child are the signals delivered to the
\* supervisor with some of them left out: in the order of delivery, each at
\* most once, none that was not delivered.
C30_ForwardedInOrder == IsSubsequence(forwarded, delivered)

\* C30, witness: three signals, the second found the channel full
C30_Witness ==
    /\ delivered = <<"SIGHUP", "SIGINT", "SIGTERM">>
    /\ forwarded = <<"SIGHUP", "SIGTERM">>
    /\ child = "running"
---------------------------------------------------------------------------
(* The specifications                                                      *)

IdleExtend ==
    /\ env = <<>>
    /\ epc = "idle"
    /\ vars = EmptyTable
    /\ elog = <<>>

IdleTemplate ==
    /\ tvars = EmptyTable
    /\ cmdSrc = <<>>
    /\ dirSrc = <<>>
    /\ tpc = "idle"
    /\ tout = <<>>
    /\ tlog = <<>>

IdleSupervisor ==
    /\ spc = "idle"
    /\ listening = FALSE
    /\ child = "none"
    /\ exitStatus = 0
    /\ sigs = <<>>
    /\ inHand = <<>>
    /\ delivered = <<>>
    /\ forwarded = <<>>
    /\ waitErr = "none"
    /\ ret = "none"
    /\ slog = <<>>
    /\ commandVars = <<>>
    /\ childEnv = <<>>
    /\ earlier = <<>>
    /\ sentAfterReturn = <<>>
    /\ refused = 0

IdleProcess == osEnviron = <<>>

IdleFiles ==
    /\ files = NoFiles
    /\ files0 = NoFiles
    /\ filename = <<>>
    /\ force = FALSE
    /\ fpc = "idle"
    /\ ferr = NoError
    /\ flog = <<>>

IdleMain ==
    /\ mpc = "idle"
    /\ found = <<>>
    /\ execCalls = 0
    /\ stageFailed = FALSE
    /\ exitCode = -1

\* readExtendedVariables on every environment
Init == InitExtend /\ IdleTemplate /\ IdleSupervisor /\ IdleProcess /\ IdleFiles /\ IdleMain

Next == ReadExtendedVariables \/ ReadExtendedVariablesPanics

Spec == Init /\ [][Next]_allvars

\* processString and fillArgs on every template and table
InitR == IdleExtend /\ InitRender /\ IdleSupervisor /\ IdleProcess /\ IdleFiles /\ IdleMain

NextR == ProcessString \/ FillArgs

SpecRender == InitR /\ [][NextR]_allvars

\* executeCommand with a child that may exit at any time and signals that
\* may arrive at any time
InitS ==
    /\ env = <<>> /\ epc = "idle" /\ elog = <<>>
    /\ IdleTemplate /\ InitSupervise /\ IdleFiles /\ IdleMain

NextS ==
    \/ StartFails
    \/ StartCommand
    \/ NotifySignals
    \/ StartListener
    \/ \E sig \in Signals : DeliverUnnotified(sig)
    \/ \E sig \in Signals : Deliver(sig)
    \/ ListenerReceive
    \/ ListenerSend
    \/ \E status \in ExitStatuses : ChildExits(status)
    \/ WaitReturns

SpecSupervise == InitS /\ [][NextS]_allvars

\* command.Wait() returns when the child has exited: the step is taken
SpecSuperviseLive == InitS /\ [][NextS]_allvars /\ WF_allvars(WaitReturns)

\* executeCommand called again and again in one process
InitS2 ==
    /\ env = <<>> /\ epc = "idle" /\ elog = <<>>
    /\ IdleTemplate /\ InitSupervise /\ IdleFiles
    /\ vars = EmptyTable /\ osEnviron = <<>>
    /\ mpc = "idle" /\ found = <<>> /\ stageFailed = FALSE /\ exitCode = -1
    /\ execCalls = 1

\* the signals delivered while executeCommand is called again and again
RepeatedSignals == {"SIGINT", "SIGTERM"}

NextS2 ==
    \/ StartFails
    \/ StartCommand
    \/ NotifySignals
    \/ StartListener
    \/ \E sig \in RepeatedSignals : DeliverUnnotified(sig)
    \/ \E sig \in RepeatedSignals : Deliver(sig)
    \/ ListenerReceive
    \/ ListenerSend
    \/ \E status \in ExitStatuses : ChildExits(status)
    \/ WaitReturns
    \/ ExecuteCommandAgain
    \/ \E sig \in RepeatedSignals : DeliverEarlier(sig)
    \/ \E i \in 1..Len(earlier) : EarlierListenerReceive(i)
    \/ \E i \in 1..Len(earlier) : EarlierListenerSend(i)

SpecSuperviseRepeated == InitS2 /\ [][NextS2]_allvars

\* processTemplate on every directory, filename and table
InitF ==
    /\ IdleExtend /\ IdleSupervisor /\ IdleProcess /\ IdleMain /\ InitFiles
    /\ cmdSrc = <<>> /\ dirSrc = <<>> /\ tpc = "idle" /\ tout = <<>> /\ tlog = <<>>

NextF == ProcessTemplate

SpecTemplate == InitF /\ [][NextF]_allvars

\* a run of main: the stages in their order, then the command and its signals
InitM ==
    /\ env \in MainEnvironments
    /\ epc = "idle" /\ vars = EmptyTable /\ elog = <<>>
    /\ cmdSrc \in MainCmds
    /\ dirSrc \in MainDirs
    /\ tvars = EmptyTable /\ tpc = "idle" /\ tout = <<>> /\ tlog = <<>>
    /\ files \in MainDirectories
    /\ files0 = files
    /\ filename = <<>>
    /\ force \in BOOLEAN
    /\ fpc = "idle" /\ ferr = NoError /\ flog = <<>>
    /\ IdleSupervisor
    /\ osEnviron = env
    /\ mpc = "env"
    /\ found = <<>>
    /\ execCalls = 0
    /\ stageFailed = FALSE
    /\ exitCode = -1

NextM ==
    \/ MainReadVariables
    \/ MainPanics
    \/ MainFillArgs
    \/ MainFindTemplateFiles
    \/ MainProcessTemplate
    \/ MainExecuteCommand
    \/ NextS
    \/ MainKilled
    \/ MainExit

SpecMain == InitM /\ [][NextM]_allvars

=============================================================================
